---- MODULE Spec2Model ----
(***************************************************************************)
(* Model of Sources/_MediaProcessingShims/include/_MediaProcessingShims.h: *)
(* the two always-inline forwarding functions libm_cosf and libm_cos and   *)
(* the compiler built-ins __builtin_cosf / __builtin_cos they forward to.  *)
(*                                                                         *)
(* Floating-point values are modelled by scaled-down binary formats: a     *)
(* format with p significand bits holds NaN, +Inf, -Inf and the finite     *)
(* values  sign * m * 2^e  with 0 <= m < 2^p and -p <= e <= p (so both     *)
(* signed zeros, values with a spacing far below 2*pi and values with a    *)
(* spacing far above 2*pi).  `float' is the format with MantF32 bits and   *)
(* `double' the one with MantF64 > MantF32 bits.  A finite magnitude is    *)
(* kept as an integer number of units of 2^-FracBits.                      *)
(*                                                                         *)
(* The built-ins are not defined in the header; they are modelled by what  *)
(* the C library routine does (ISO C Annex F.10.1.5 and 7.12.1): the       *)
(* cosine of the argument rounded to the format, NaN for a NaN argument,   *)
(* NaN with the "invalid" exception (and errno = EDOM where                *)
(* math_errhandling has MATH_ERRNO) for an infinite argument, "inexact"    *)
(* for a finite nonzero argument.                                          *)
(***************************************************************************)
EXTENDS Integers, FiniteSets

\* Significand bits of the model's `float' (scaled down from 24).
MantF32 == 3
\* Significand bits of the model's `double' (scaled down from 53).
MantF64 == 4
\* Fraction bits of the fixed-point unit finite magnitudes are counted in.
FracBits == 12

One == 2^FracBits

---------------------------------------------------------------------------
(* Values *)

NaN == [cls |-> "nan", sign |-> 1, mag |-> 0]
Inf(s) == [cls |-> "inf", sign |-> s, mag |-> 0]
Fin(s, n) == [cls |-> "fin", sign |-> s, mag |-> n]

\* The outcome of a call that did not return a value (no code path of the
\* header produces it).
Trap == [cls |-> "trap", sign |-> 1, mag |-> 0]

IsNaN(v) == v.cls = "nan"
IsInf(v) == v.cls = "inf"
IsFinite(v) == v.cls = "fin"
IsZero(v) == v.cls = "fin" /\ v.mag = 0

\* The signed number of units a finite value stands for.
Units(v) == v.sign * v.mag

Abs(i) == IF i < 0 THEN -i ELSE i

\* The finite magnitudes of the format with p significand bits.
Magnitudes(p) == { m * 2^(e + FracBits) : m \in 0..(2^p - 1), e \in (-p)..p }

MaxMag(p) == (2^p - 1) * 2^(p + FracBits)

Floats(p) ==
    {NaN, Inf(1), Inf(-1)}
        \cup { Fin(s, n) : s \in {1, -1}, n \in Magnitudes(p) }

F32 == Floats(MantF32)
F64 == Floats(MantF64)

\* floor(log2(n)) for n >= 1.
RECURSIVE ILog2(_)
ILog2(n) == IF n <= 1 THEN 0 ELSE 1 + ILog2(n \div 2)

\* The spacing of the format's values around magnitude n (its unit in the
\* last place).
Ulp(p, n) ==
    LET k == ILog2(IF n < 1 THEN 1 ELSE n) - p + 1
        kmin == FracBits - p
    IN  2^(IF k < kmin THEN kmin ELSE k)

\* Round a magnitude to the format: to nearest, ties to the even significand.
RoundMag(p, n) ==
    LET q == Ulp(p, n)
        lo == (n \div q) * q
        hi == lo + q
    IN  IF n - lo < hi - n THEN lo
        ELSE IF n - lo > hi - n THEN hi
        ELSE IF (lo \div q) % 2 = 0 THEN lo ELSE hi

\* Round a signed number of units to a value of the format.
RoundTo(p, i) ==
    LET r == RoundMag(p, Abs(i))
    IN  IF r > MaxMag(p) THEN Inf(IF i < 0 THEN -1 ELSE 1)
        ELSE Fin(IF i < 0 THEN -1 ELSE 1, r)

---------------------------------------------------------------------------
(* The cosine, in fixed point *)

\* pi, with pi = 355/113 (relative error below 1e-7).
PiUnits == (355 * One) \div 113

\* |i| reduced modulo 2*pi = 710/113 into [0, 2*pi).
Reduce(i) == ((Abs(i) * 113) % (710 * One)) \div 113

\* The Taylor series of cos on [0, pi/2]: term k is r^(2k)/(2k)!.
RECURSIVE CosSeries(_, _, _)
CosSeries(r2, k, term) ==
    IF term = 0 \/ k > 8 THEN 0
    ELSE term - CosSeries(r2, k + 1, (term * r2) \div ((2*k + 1) * (2*k + 2) * One))

\* cos of a reduced argument in [0, 2*pi).
CosReduced(r) ==
    LET a == IF r > PiUnits THEN 2 * PiUnits - r ELSE r
        b == IF 2 * a > PiUnits THEN PiUnits - a ELSE a
        c == CosSeries((b * b) \div One, 0, One)
    IN  IF 2 * a > PiUnits THEN -c ELSE c

\* cos(i / One) * One.
CosFix(i) == CosReduced(Reduce(i))

---------------------------------------------------------------------------
(* State *)

\* The callers: each has its own position, argument, result, floating-point
\* environment and errno (both are thread-local in C).  The header declares
\* no variable, so there is no state the callers share.
Threads == {"t1", "t2"}
Main == "t1"

VARIABLES
    pc,         \* pc[t]: "idle", inside a call ("in_cosf", "in_cos") or back
                \* in the caller with the result ("ret_cosf", "ret_cos")
    arg,        \* arg[t]: the caller's argument of its current or last call
    res,        \* res[t]: the value its last call returned
    fenv,       \* fenv[t]: the floating-point exception flags that are set
    errno,      \* errno[t]: "0" or "EDOM"
    overlap,    \* overlap[t]: another caller was inside a call when t's last
                \* call returned (history variable)
    mathErrno   \* the platform's math_errhandling has MATH_ERRNO

vars == <<pc, arg, res, fenv, errno, overlap, mathErrno>>

InCall == {"in_cosf", "in_cos"}
Returned == {"ret_cosf", "ret_cos"}

---------------------------------------------------------------------------
(* The functions *)

\* cos of the C library at the precision p: the value, the floating-point
\* exceptions raised and the value errno is set to ("0": left alone).
CosRoutine(p, x) ==
    IF IsNaN(x) THEN [val |-> NaN, raised |-> {}, err |-> "0"]
    ELSE IF IsInf(x) THEN
        [val |-> NaN, raised |-> {"invalid"},
         err |-> IF mathErrno THEN "EDOM" ELSE "0"]
    ELSE [val |-> RoundTo(p, CosFix(Units(x))),
          raised |-> IF x.mag = 0 THEN {} ELSE {"inexact"},
          err |-> "0"]

builtin_cosf(x) == CosRoutine(MantF32, x)

builtin_cos(x) == CosRoutine(MantF64, x)

\* A value converted to `float' (the conversion of a return value).
Narrow(v) == IF IsFinite(v) THEN RoundTo(MantF32, Units(v)) ELSE v

\* sin of the C library at the precision p, as cos(x - pi/2).
SinRoutine(p, x) ==
    IF IsFinite(x)
    THEN [CosRoutine(p, x) EXCEPT !.val = RoundTo(p, CosFix(Units(x) - PiUnits \div 2))]
    ELSE CosRoutine(p, x)

\* Variants of libm_cosf with a slip in it.
\* Goes through the double-precision routine and converts the result.
libm_cosf_viaDouble(x) == [builtin_cos(x) EXCEPT !.val = Narrow(@)]
\* Refuses a non-finite argument instead of forwarding it.
libm_cosf_asserting(x) ==
    IF IsFinite(x) THEN builtin_cosf(x) ELSE [builtin_cosf(x) EXCEPT !.val = Trap]
\* Answers 0 for a non-finite argument.
libm_cosf_guarded(x) ==
    IF IsFinite(x) THEN builtin_cosf(x) ELSE [builtin_cosf(x) EXCEPT !.val = Fin(1, 0)]

libm_cosf(x) == builtin_cosf(x)

\* Variants of libm_cos with a slip in it.
\* Forwards to the sine built-in.
libm_cos_sin(x) == SinRoutine(MantF64, x)
\* Returns its argument.
libm_cos_identity(x) == [builtin_cos(x) EXCEPT !.val = x]
\* Goes through the single-precision routine.
libm_cos_viaFloat(x) == builtin_cosf(Narrow(x))
\* Reports a NaN argument through errno.
libm_cos_errno(x) ==
    IF IsNaN(x) THEN [builtin_cos(x) EXCEPT !.err = "EDOM"] ELSE builtin_cos(x)

libm_cos(x) == builtin_cos(x)

---------------------------------------------------------------------------
(* Actions *)

\* The caller t passes x to libm_cosf.
CallCosf(t, x) ==
    /\ pc[t] \notin InCall
    /\ pc' = [pc EXCEPT ![t] = "in_cosf"]
    /\ arg' = [arg EXCEPT ![t] = x]
    /\ overlap' = [overlap EXCEPT ![t] = FALSE]
    /\ UNCHANGED <<res, fenv, errno, mathErrno>>

\* The caller t passes x to libm_cos.
CallCos(t, x) ==
    /\ pc[t] \notin InCall
    /\ pc' = [pc EXCEPT ![t] = "in_cos"]
    /\ arg' = [arg EXCEPT ![t] = x]
    /\ overlap' = [overlap EXCEPT ![t] = FALSE]
    /\ UNCHANGED <<res, fenv, errno, mathErrno>>

\* What a call that ends with the effect e leaves in t's state.
Finish(t, e, to) ==
    /\ pc' = [pc EXCEPT ![t] = to]
    /\ res' = [res EXCEPT ![t] = e.val]
    /\ fenv' = [fenv EXCEPT ![t] = @ \cup e.raised]
    /\ errno' = [errno EXCEPT ![t] = IF e.err = "0" THEN @ ELSE e.err]
    /\ overlap' = [overlap EXCEPT ![t] = \E u \in Threads \ {t} : pc[u] \in InCall]
    /\ UNCHANGED <<arg, mathErrno>>

\* The body of libm_cosf runs for t and returns.
ReturnCosf(t) ==
    /\ pc[t] = "in_cosf"
    /\ Finish(t, libm_cosf(arg[t]), "ret_cosf")

\* Variants of the body of libm_cos with a slip in it.
\* Keeps the argument in a static buffer: a concurrent call overwrites it.
ReturnCos_static(t) ==
    /\ pc[t] = "in_cos"
    /\ LET others == { u \in Threads \ {t} : pc[u] \in InCall }
           x == IF others = {} THEN arg[t] ELSE arg[CHOOSE u \in others : TRUE]
       IN  Finish(t, libm_cos(x), "ret_cos")
\* Tests the "invalid" flag after the call without clearing it before.
ReturnCos_sticky(t) ==
    /\ pc[t] = "in_cos"
    /\ Finish(t, IF "invalid" \in fenv[t]
                 THEN [libm_cos(arg[t]) EXCEPT !.val = NaN]
                 ELSE libm_cos(arg[t]), "ret_cos")

\* The body of libm_cos runs for t and returns.
ReturnCos(t) ==
    /\ pc[t] = "in_cos"
    /\ Finish(t, libm_cos(arg[t]), "ret_cos")

Init ==
    /\ pc = [t \in Threads |-> "idle"]
    /\ arg = [t \in Threads |-> Fin(1, 0)]
    /\ res = [t \in Threads |-> Fin(1, 0)]
    /\ fenv = [t \in Threads |-> {}]
    /\ errno = [t \in Threads |-> "0"]
    /\ overlap = [t \in Threads |-> FALSE]
    /\ mathErrno \in BOOLEAN

\* One caller, every value of both formats.
Next ==
    \/ \E x \in F32 : CallCosf(Main, x)
    \/ \E x \in F64 : CallCos(Main, x)
    \/ ReturnCosf(Main)
    \/ ReturnCos(Main)

Spec == Init /\ [][Next]_vars

\* The arguments of the concurrent callers.
ConcF32 == {NaN, Inf(1), Fin(-1, 0), Fin(1, 3 * 2^(FracBits - 1)), Fin(1, 2 * One)}
ConcF64 ==
    {NaN, Inf(1), Inf(-1), Fin(1, 0), Fin(1, 3 * 2^(FracBits - 1)),
     Fin(-1, 3 * 2^(FracBits - 1)), Fin(1, 2 * One)}

\* Two callers, their calls interleaved in every order.
NextConc ==
    \/ \E t \in Threads : \E x \in ConcF32 : CallCosf(t, x)
    \/ \E t \in Threads : \E x \in ConcF64 : CallCos(t, x)
    \/ \E t \in Threads : ReturnCosf(t)
    \/ \E t \in Threads : ReturnCos(t)

SpecConc == Init /\ [][NextConc]_vars

TypeOK ==
    /\ pc \in [Threads -> {"idle"} \cup InCall \cup Returned]
    /\ \A t \in Threads : arg[t] \in F64 /\ res[t] \in F64
    /\ fenv \in [Threads -> SUBSET {"invalid", "inexact"}]
    /\ errno \in [Threads -> {"0", "EDOM"}]
    /\ overlap \in [Threads -> BOOLEAN]
    /\ mathErrno \in BOOLEAN

---------------------------------------------------------------------------
(* Properties *)

\* The value the platform routine of the call's precision gives for x.
Platform(p, x) == IF p = "ret_cosf" THEN builtin_cosf(x).val ELSE builtin_cos(x).val

\* -x.
Neg(v) == [v EXCEPT !.sign = -v.sign]

\* 2*pi, with pi = 355/113, in units and as a `double'.
TwoPiUnits == (710 * One) \div 113
TwoPi64 == RoundTo(MantF64, TwoPiUnits)

\* x + y in `double', for finite x and y.
Add64(x, y) == RoundTo(MantF64, Units(x) + Units(y))

\* Two finite values that differ by at most tol units.
Close(a, b, tol) == IsFinite(a) /\ IsFinite(b) /\ Abs(Units(a) - Units(b)) <= tol

\* The spacing of the results of precision p below 1.
ResultUlp(p) == Ulp(p, One - 1)

\* C1: a returned call's value is exactly the value the platform cosine
\* routine of the same precision gives for the call's argument.
C1_ForwardsExactly ==
    \A t \in Threads :
        /\ pc[t] = "ret_cosf" => res[t] = builtin_cosf(arg[t]).val
        /\ pc[t] = "ret_cos" => res[t] = builtin_cos(arg[t]).val

\* libm_cosf has returned for an argument on which the single- and the
\* double-precision routine differ.
C1_Witness ==
    /\ pc[Main] = "ret_cosf"
    /\ IsFinite(arg[Main])
    /\ res[Main] = builtin_cosf(arg[Main]).val
    /\ res[Main] # Narrow(builtin_cos(arg[Main]).val)

\* C2: a returned call holds a value of its own precision, never the outcome
\* of a failed call, for every argument: finite, NaN, +Inf, -Inf.
C2_TotalNeverFails ==
    \A t \in Threads :
        /\ pc[t] = "ret_cosf" => res[t] \in F32
        /\ pc[t] = "ret_cos" => res[t] \in F64

\* libm_cosf has returned a value for an infinite argument.
C2_Witness ==
    /\ pc[Main] = "ret_cosf"
    /\ IsInf(arg[Main])
    /\ res[Main] \in F32

\* C5: a call with a NaN or an infinite argument returns NaN.
C5_NonFiniteGivesNaN ==
    \A t \in Threads :
        (pc[t] \in Returned /\ ~IsFinite(arg[t])) => IsNaN(res[t])

\* libm_cosf has returned NaN for -Inf.
C5_Witness ==
    /\ pc[Main] = "ret_cosf"
    /\ arg[Main] = Inf(-1)
    /\ IsNaN(res[Main])

\* C6: a call with a zero argument returns exactly 1.0, at both precisions.
C6_CosZeroIsOne ==
    \A t \in Threads :
        (pc[t] \in Returned /\ IsZero(arg[t])) => res[t] = Fin(1, One)

\* libm_cos has returned 1.0 for a zero.
C6_Witness ==
    /\ pc[Main] = "ret_cos"
    /\ IsZero(arg[Main])
    /\ res[Main] = Fin(1, One)

\* C7: for a finite argument the result is finite and within [-1, 1], up to
\* one unit in the last place of the result's precision.
C7_InRange ==
    \A t \in Threads :
        /\ (pc[t] = "ret_cosf" /\ IsFinite(arg[t]))
               => IsFinite(res[t]) /\ res[t].mag <= One + ResultUlp(MantF32)
        /\ (pc[t] = "ret_cos" /\ IsFinite(arg[t]))
               => IsFinite(res[t]) /\ res[t].mag <= One + ResultUlp(MantF64)

\* libm_cos has returned for an argument above 1 in magnitude.
C7_Witness ==
    /\ pc[Main] = "ret_cos"
    /\ IsFinite(arg[Main])
    /\ arg[Main].mag > One
    /\ IsFinite(res[Main])

\* C8: for finite x, libm_cos(x) and libm_cos(-x) agree within one unit in
\* the last place of the result.
C8_Even ==
    \A t \in Threads :
        (pc[t] = "ret_cos" /\ IsFinite(arg[t]))
            => Close(res[t], libm_cos(Neg(arg[t])).val, ResultUlp(MantF64))

\* libm_cos has returned a nonzero value for a negative argument.
C8_Witness ==
    /\ pc[Main] = "ret_cos"
    /\ IsFinite(arg[Main])
    /\ arg[Main].sign = -1
    /\ arg[Main].mag > 0
    /\ res[Main].mag > 0

\* A step in which the call of t returns.
Returns(t) == pc[t] \in InCall /\ pc'[t] \in Returned

C4_Reentrant ==
    \A t \in Threads :
        (pc[t] \in Returned /\ overlap[t]) => res[t] = Platform(pc[t], arg[t])

\* libm_cos has returned for t1 while t2 was, and still is, inside libm_cosf
\* with another argument that has another cosine.
C4_Witness ==
    /\ pc["t1"] = "ret_cos"
    /\ overlap["t1"]
    /\ pc["t2"] = "in_cosf"
    /\ arg["t1"] # arg["t2"]
    /\ res["t1"] # builtin_cos(arg["t2"]).val

\* C10: two callers whose last calls are calls of the same function with the
\* same argument hold the same result, whatever each did before.
C10_Deterministic ==
    \A a, b \in Threads :
        (pc[a] \in Returned /\ pc[b] = pc[a] /\ arg[b] = arg[a]) => res[b] = res[a]

\* Both callers have returned from libm_cos with the same finite argument
\* after different histories: only t1 called with an infinite argument before.
C10_Witness ==
    /\ pc["t1"] = "ret_cos"
    /\ pc["t2"] = "ret_cos"
    /\ arg["t1"] = arg["t2"]
    /\ IsFinite(arg["t1"])
    /\ "invalid" \in fenv["t1"]
    /\ "invalid" \notin fenv["t2"]
    /\ res["t1"] = res["t2"]

\* C9 as stated, with a quarter as the tolerance: for finite x, libm_cos(x)
\* and libm_cos(x + 2*pi) agree within the tolerance.
C9_Periodic ==
    \A t \in Threads :
        (pc[t] = "ret_cos" /\ IsFinite(arg[t]))
            => Close(res[t], libm_cos(Add64(arg[t], TwoPi64)).val, One \div 4)

\* C9 as amended: for finite x, the sum x + 2*pi is finite, and libm_cos(x)
\* and libm_cos(x + 2*pi) differ by no more than the sum's distance from the
\* real x + 2*pi (the rounding of 2*pi and of the sum) plus the rounding of
\* the two results (half a unit in the last place each, and 3 units of the
\* fixed-point evaluation each).
C9_PeriodicUpToRounding ==
    \A t \in Threads :
        (pc[t] = "ret_cos" /\ IsFinite(arg[t]))
            => LET y == Add64(arg[t], TwoPi64)
               IN  /\ IsFinite(y)
                   /\ Close(res[t], libm_cos(y).val,
                            Abs(Units(y) - (Units(arg[t]) + TwoPiUnits))
                                + ResultUlp(MantF64) + 6)

\* libm_cos has returned for an argument so large that adding 2*pi moves it
\* by a whole spacing that is not 2*pi, and the two cosines are far apart.
C9_Witness ==
    /\ pc[Main] = "ret_cos"
    /\ IsFinite(arg[Main])
    /\ Ulp(MantF64, arg[Main].mag) >= One
    /\ Add64(arg[Main], TwoPi64) # arg[Main]
    /\ ~Close(res[Main], libm_cos(Add64(arg[Main], TwoPi64)).val, One \div 4)

====
